---- MODULE Spec2Model ----
(***************************************************************************)
(* Load management, BESS control and session coordination of the EMS.      *)
(*                                                                         *)
(* Units.  Every power is an integer number of tenths of a kilowatt        *)
(* (150 kW is 1500), every energy an integer number of tenths of a kWh.    *)
(* A battery state of charge is an integer number of 1/SocScale percent,   *)
(* the grain at which one second of apply_power at 0.1 kW moves it.        *)
(* A charger's share maxPower / active_connectors is not a whole number of *)
(* tenths in general (200 / 3); demands are therefore carried multiplied   *)
(* by Scale(S), the product of the chargers' active-connector counts, so   *)
(* that every quotient the allocator forms is exact until the final        *)
(* rounding to 0.1 kW.                                                     *)
(***************************************************************************)
EXTENDS Integers, FiniteSets, Sequences, TLC

----------------------------------------------------------------------------
(* Bounds of the model *)

\* session identifiers devices and the REST layer may present: 1..MaxSessions
MaxSessions == 3
\* number of inbound events handled in one behaviour
MaxEvents == 3

----------------------------------------------------------------------------
(* Station configuration (StationConfig): one site, two chargers, a battery *)

gridCapacity == 2030
staticLoad == 30

Chargers == {"CP001", "CP002"}

\* ChargerConfig.maxPower, shared between the charger's connectors
maxPower == [c \in Chargers |-> IF c = "CP001" THEN 2000 ELSE 3000]

\* ConnectorConfig.max_power per (charger, connector_id): the nameplate
max_power ==
    [c \in Chargers |->
        IF c = "CP001" THEN (1 :> 1500) @@ (2 :> 1500) @@ (3 :> 220)
                       ELSE (1 :> 3000)]

\* connector numbers looked up without regard to the charger
Connectors_of_any(c) == 1..3

Connectors(c) == DOMAIN max_power[c]

\* the (charger, connector) pairs of the topology
Places == {p \in Chargers \X (1..3) : p[2] \in Connectors(p[1])}

\* BatteryConfig
initialCapacity == 200
batteryPower == 1000
minSOC == 10
maxSOC == 100

\* state of charge: SocScale units per percent
SocScale == 360 * initialCapacity

----------------------------------------------------------------------------
(* Arithmetic helpers *)

Min(a, b) == IF a <= b THEN a ELSE b
Max(a, b) == IF a >= b THEN a ELSE b
Abs(a) == IF a >= 0 THEN a ELSE -a

RECURSIVE SumOver(_, _)
\* sum of f[x] over the finite set D
SumOver(f, D) ==
    IF D = {} THEN 0
    ELSE LET x == CHOOSE y \in D : TRUE
         IN f[x] + SumOver(f, D \ {x})

RECURSIVE ProdOver(_, _)
ProdOver(f, D) ==
    IF D = {} THEN 1
    ELSE LET x == CHOOSE y \in D : TRUE
         IN f[x] * ProdOver(f, D \ {x})

\* a / b cut to the integer below
round_down(a, b) == a \div b

\* round(a / b) to the nearest integer, a >= 0, b > 0; an exact half goes to
\* the even neighbour.  On every quotient the configuration above produces
\* this is the value Python's round(x, 1) returns for the float x.
round(a, b) ==
    LET q == a \div b
        r == a % b
    IN IF 2 * r < b THEN q
       ELSE IF 2 * r > b THEN q + 1
       ELSE IF q % 2 = 0 THEN q ELSE q + 1

----------------------------------------------------------------------------
(* BESSController: b is the record [soc, power, mode] *)

\* soc units per 0.1 kWh of stored energy: (1 / 100) * initialCapacity kWh
\* per percent
EnergyGrain == (100 * SocScale) \div (initialCapacity * 10)

\* kWh above minSOC, in tenths (exact whenever soc is a whole percent)
calculate_available_energy(b) ==
    Max(0, b.soc - minSOC * SocScale) \div EnergyGrain

calculate_available_discharge(b) ==
    IF b.soc <= minSOC * SocScale THEN 0
    ELSE Min(batteryPower, calculate_available_energy(b))

calculate_available_charge(b) ==
    IF b.soc >= maxSOC * SocScale THEN 0
    ELSE Min(batteryPower, (maxSOC * SocScale - b.soc) \div EnergyGrain)

\* the BESSStatus snapshot the coordinators hand to the allocator
get_status(b) ==
    [mode |-> b.mode, power |-> b.power, soc |-> b.soc,
     availableEnergy |-> calculate_available_energy(b),
     availableDischarge |-> calculate_available_discharge(b),
     availableCharge |-> calculate_available_charge(b)]

\* "no snapshot": the allocator's bess_status = None default
None == [none |-> TRUE]
IsNone(bess_status) == DOMAIN bess_status = {"none"}

set_idle(b) == [b EXCEPT !.mode = "idle", !.power = 0]

\* power is a rational number of tenths of a kW, given as num / den
set_discharge(b, num, den) ==
    LET available == calculate_available_discharge(b)
        \* actual_power = min(power, available) < 0.1
        below == num < den \/ available < 1
    IN IF below THEN set_idle(b) ELSE [b EXCEPT !.mode = "boost"]

set_charge(b, power) ==
    LET available == calculate_available_charge(b)
        actual_power == Min(power, available)
    IN IF actual_power < 1 THEN set_idle(b) ELSE [b EXCEPT !.mode = "charging"]

\* mode derived from the sign and size of a power (0.1 kW threshold)
ModeOf(power) ==
    IF Abs(power) < 1 THEN "idle"
    ELSE IF power > 0 THEN "discharging" ELSE "charging"

\* one integration step of duration_seconds seconds
apply_power(b, power, duration_seconds) ==
    LET soc_change == power * duration_seconds
        new_soc == b.soc - soc_change
    IN [soc |-> Max(minSOC * SocScale, Min(maxSOC * SocScale, new_soc)),
        power |-> power,
        mode |-> ModeOf(power)]

update_from_telemetry(b, soc, power) ==
    [soc |-> soc, power |-> power, mode |-> ModeOf(power)]

\* _calculate_available_discharge in tenths of a kW times EnergyGrain: exact
\* for every state of charge
available_discharge_grains(b) ==
    IF b.soc <= minSOC * SocScale THEN 0
    ELSE Min(batteryPower * EnergyGrain, b.soc - minSOC * SocScale)

\* the whole shortage asked of the battery, whatever it holds
calculate_boost_power_unbounded(b, shortage_num, den) ==
    IF shortage_num <= 0 THEN 0 ELSE shortage_num * EnergyGrain

\* shortage = total_demand - grid_available is shortage_num / den tenths
\* of a kW; the result, min(shortage, available discharge), times
\* den * EnergyGrain
calculate_boost_power(b, shortage_num, den) ==
    IF shortage_num <= 0 THEN 0
    ELSE Min(shortage_num * EnergyGrain, available_discharge_grains(b) * den)

\* MIN_CHARGE_POWER = 5.0 kW
MIN_CHARGE_POWER == 50

calculate_charge_opportunity(b, grid_available, current_load) ==
    LET spare_power == grid_available - current_load
        charge_power == Min(spare_power, calculate_available_charge(b))
    IN IF b.soc >= maxSOC * SocScale THEN 0
       ELSE IF spare_power <= 0 THEN 0
       ELSE IF charge_power < MIN_CHARGE_POWER THEN 0
       ELSE charge_power

----------------------------------------------------------------------------
(* LoadManagementAlgorithm: S is the registry self.sessions, a function    *)
(* from the identifiers of the sessions it holds to their records          *)

SessionIds == 1..MaxSessions

\* number of registry sessions on charger c with status "active"
active_connectors(S, c) ==
    Cardinality({x \in DOMAIN S : S[x].chargerId = c /\ S[x].status = "active"})

\* the divisor the limit of a session on charger c uses (0 counts as 1)
Divisor(S, c) == IF active_connectors(S, c) = 0 THEN 1 ELSE active_connectors(S, c)

\* common denominator of the registry's connector limits
Scale(S) == ProdOver([c \in Chargers |-> Divisor(S, c)], Chargers)

\* charger_config.maxPower / active_connectors, times Scale(S);
\* 0 for a charger the configuration does not list
get_charger_connector_limit(S, session) ==
    IF session.chargerId \notin Chargers THEN 0
    ELSE (maxPower[session.chargerId] * Scale(S))
             \div Divisor(S, session.chargerId)

\* min(vehicleMaxPower, connector limit), times Scale(S)
session_demand(S, session) ==
    Min(session.vehicleMaxPower * Scale(S), get_charger_connector_limit(S, session))

total_demand(S) ==
    SumOver([x \in DOMAIN S |-> session_demand(S, S[x])], DOMAIN S)

\* grid share plus the snapshot's discharge capability, in tenths of a kW
total_available(bess_status) ==
    (gridCapacity - staticLoad) +
    (IF IsNone(bess_status) THEN 0 ELSE bess_status.availableDischarge)

\* allocation_factor = 1.0
EnoughForAll(S, bess_status) ==
    total_demand(S) <= total_available(bess_status) * Scale(S)

\* every session handed its full demand, whatever the site has available
calculate_power_allocation_unscaled(S, bess_status) ==
    [x \in DOMAIN S |-> round(session_demand(S, S[x]), Scale(S))]

\* every allocation moved only half-way from the stored one to the target
calculate_power_allocation_smoothed(S, bess_status) ==
    [x \in DOMAIN S |->
        (S[x].allocatedPower
            + (IF EnoughForAll(S, bess_status)
               THEN round(session_demand(S, S[x]), Scale(S))
               ELSE round(session_demand(S, S[x]) * total_available(bess_status),
                          total_demand(S)))) \div 2]

\* the session that started first served in full, the others in proportion
calculate_power_allocation_first_served(S, bess_status) ==
    [x \in DOMAIN S |->
        IF EnoughForAll(S, bess_status) \/ (\A y \in DOMAIN S : x <= y)
        THEN round(session_demand(S, S[x]), Scale(S))
        ELSE round(session_demand(S, S[x]) * total_available(bess_status),
                   total_demand(S))]

\* the allocation vector: session id |-> allocatedPower, rounded to 0.1 kW
calculate_power_allocation(S, bess_status) ==
    [x \in DOMAIN S |->
        IF EnoughForAll(S, bess_status)
        THEN round(session_demand(S, S[x]), Scale(S))
        ELSE round(session_demand(S, S[x]) * total_available(bess_status),
                   total_demand(S))]

NewSession(charger_id, connector_id, vehicle_max_power) ==
    [chargerId |-> charger_id, connectorId |-> connector_id,
     status |-> "active", vehicleMaxPower |-> vehicle_max_power,
     allocatedPower |-> 0, consumedPower |-> 0, offeredPower |-> 0,
     totalEnergy |-> 0]

\* the registry after handle_session_start
handle_session_start(S, session_id, charger_id, connector_id, vehicle_max_power) ==
    LET S1 == (session_id :> NewSession(charger_id, connector_id, vehicle_max_power)) @@ S
        allocations == calculate_power_allocation(S1, None)
    IN [x \in DOMAIN S1 |-> [S1[x] EXCEPT !.allocatedPower = allocations[x]]]

\* the registry after a successful handle_session_stop (session_id in S)
handle_session_stop(S, session_id) ==
    LET S1 == [x \in DOMAIN S \ {session_id} |-> S[x]]
        allocations == calculate_power_allocation(S1, None)
    IN [x \in DOMAIN S1 |-> [S1[x] EXCEPT !.allocatedPower = allocations[x]]]

\* allocations applied to allocatedPower and offeredPower alike
ApplyAllocations(S, allocations) ==
    [x \in DOMAIN S |-> [S[x] EXCEPT !.allocatedPower = allocations[x],
                                     !.offeredPower = allocations[x]]]

\* the registry after handle_power_update
handle_power_update(S, session_id, consumed_power, vehicle_max_power, bess_status) ==
    IF session_id \notin DOMAIN S THEN S
    ELSE LET S1 == [S EXCEPT ![session_id].consumedPower = consumed_power,
                             ![session_id].vehicleMaxPower = vehicle_max_power]
         IN ApplyAllocations(S1, calculate_power_allocation(S1, bess_status))

----------------------------------------------------------------------------
(* The coordinators: SessionServiceMQTT (with the global MQTT handlers) and *)
(* SessionService.  A process runs one of them; svc says which.            *)

VARIABLES
    svc,            \* "mqtt": SessionServiceMQTT, "rest": SessionService
    sessions,       \* load_manager.sessions, the in-memory registry
    bess,           \* the BESSController: [soc, power, mode]
    db,             \* charging_sessions table: session_id |-> row
    connStatus,     \* connectors table: (charger, connector) |-> status
    lastAvailable,  \* total_available of the latest allocator run (its log line)
    last,           \* the latest inbound event: [kind, result]; result is
                    \* "ok", an error kind, or "raised" when the handler
                    \* ended in an exception
    nEvents,        \* events handled so far
    published,      \* (charger, connector) |-> the power limit last published
                    \* for it, NoLimit when none was
    pubNow,         \* the power limits the latest step published:
                    \* <<session id, charger, connector, limit>>
    tasks,          \* handlers suspended on the event loop at an await
    stopped,        \* sessions whose stop handler has run to its end
    acked,          \* sessions whose start has been acknowledged
    dropped,        \* sessions an update of which found no session while
                    \* their start handler was in flight
    bessCmd,        \* the BESS command the latest step issued, NoCommand
                    \* when it issued none
    listening,      \* the MQTT adapter is up: its network thread and the
                    \* event loop take inbound messages
    discarded,      \* malformed messages logged and discarded so far
    updatedAt,      \* session |-> timestamp of the latest session update
                    \* processed for it, where messages carry one
    connected,      \* MQTTService.connected: the client is connected to
                    \* the broker
    wiring          \* the module globals of session_service_mqtt and what
                    \* the SessionServiceMQTT instances made of them

vars == <<svc, sessions, bess, db, connStatus, lastAvailable, last, nEvents,
          published, pubNow, tasks, stopped, acked, dropped, bessCmd,
          listening, discarded, updatedAt, connected, wiring>>

\* what only the interleaved handlers touch
loopVars == <<tasks, stopped, acked, dropped>>

\* what only faulty or stamped messages, the broker connection and the
\* construction of service instances touch
faultVars == <<listening, discarded, updatedAt, connected, wiring>>

\* no limit published yet
NoLimit == -1

\* an empty registry / table
Empty == [x \in {} |-> 0]

\* _optimize_and_publish_bess / _optimize_bess_usage: the controller after
\* the policy has run over registry S
optimize_bess(S, b) ==
    LET grid_available == gridCapacity - staticLoad
        total_consumed == SumOver([x \in DOMAIN S |-> S[x].consumedPower], DOMAIN S)
        shortage_num == total_demand(S) - grid_available * Scale(S)
        boost_power == calculate_boost_power(b, shortage_num, Scale(S))
        charge_power == calculate_charge_opportunity(b, grid_available, total_consumed)
    IN IF shortage_num > 0
       THEN IF boost_power > 0
            THEN set_discharge(b, boost_power, Scale(S) * EnergyGrain)
            ELSE b
       ELSE IF 10 * total_consumed < 7 * grid_available
       THEN IF charge_power > 0 THEN set_charge(b, charge_power) ELSE b
       ELSE set_idle(b)

\* no BESS command
NoCommand == [command |-> "none", num |-> 0, den |-> 1]

\* the BESS command the policy run over registry S issues (SessionServiceMQTT
\* publishes it, SessionService logs it): the command word the branch names
\* and the power of the BESSCommand the controller returned, num / den
\* tenths of a kW; NoCommand when the branch issues none
bess_command(S, b) ==
    LET grid_available == gridCapacity - staticLoad
        total_consumed == SumOver([x \in DOMAIN S |-> S[x].consumedPower], DOMAIN S)
        shortage_num == total_demand(S) - grid_available * Scale(S)
        boost_power == calculate_boost_power(b, shortage_num, Scale(S))
        charge_power == calculate_charge_opportunity(b, grid_available, total_consumed)
        den == Scale(S) * EnergyGrain
    IN IF shortage_num > 0
       THEN IF boost_power > 0
            THEN \* set_discharge hands back the idle command below 0.1 kW
                 [command |-> "discharge",
                  num |-> IF boost_power < den THEN 0 ELSE boost_power,
                  den |-> den]
            ELSE NoCommand
       ELSE IF 10 * total_consumed < 7 * grid_available
       THEN IF charge_power > 0
            THEN [command |-> "charge",
                  num |-> Min(charge_power, calculate_available_charge(b)),
                  den |-> 1]
            ELSE NoCommand
       ELSE [command |-> "idle", num |-> 0, den |-> 1]

\* SessionRepository.create: a new row
NewRow(charger_id, connector_id, vehicle_max_power) ==
    [charger |-> charger_id, connector |-> connector_id, status |-> "active",
     vehicle_max_power |-> vehicle_max_power, allocated_power |-> 0,
     consumed_power |-> 0, offered_power |-> 0, total_energy |-> 0]

\* SessionRepository.update_power on table T; total_energy -1 stands for None
repo_update_power(T, session_id, consumed_power, allocated_power, vehicle_max_power, total_energy) ==
    IF session_id \notin DOMAIN T THEN T
    ELSE [T EXCEPT ![session_id] =
            [@ EXCEPT !.consumed_power = consumed_power,
                      !.allocated_power = allocated_power,
                      !.vehicle_max_power = vehicle_max_power,
                      !.offered_power = allocated_power,
                      !.total_energy = IF total_energy = -1 THEN @ ELSE total_energy]]

\* what the allocator logs as total available; unchanged when it returns
\* early on an empty registry
LogAvailable(S, bess_status) ==
    IF DOMAIN S = {} THEN lastAvailable ELSE total_available(bess_status)

\* the message kinds MQTTService keeps a handler list for
Kinds == {"telemetry", "start", "stop", "update", "bess"}

\* the module before any SessionServiceMQTT exists: _global_load_manager
\* and _global_bess_controller are None (0), no handler is registered.
\* manager / controller: the object the global names (objects are numbered
\* in the order of their creation); managers / controllers: how many were
\* created; registered: MQTTService has _handlers_registered; handlers:
\* length of each handler list; instances: services constructed; bound:
\* the registries and controllers the services refer to; pending: the
\* message or request the latest service was constructed for; invoked:
\* handler invocations it led to
Unwired ==
    [manager |-> 0, controller |-> 0, managers |-> 0, controllers |-> 0,
     registered |-> FALSE, handlers |-> [k \in Kinds |-> 0], instances |-> 0,
     bound |-> {}, pending |-> "none", invoked |-> 0]

\* a constructor that builds its own registry and controller and registers
\* the handlers again for every instance
SessionServiceMQTT_init_per_instance(w) ==
    [w EXCEPT !.manager = w.managers + 1,
              !.managers = @ + 1,
              !.controller = w.controllers + 1,
              !.controllers = @ + 1,
              !.registered = TRUE,
              !.handlers = [k \in Kinds |-> @[k] + 1],
              !.instances = @ + 1,
              !.bound = @ \cup {<<w.managers + 1, w.controllers + 1>>}]

\* SessionServiceMQTT.__init__: the globals are created when they are None,
\* the handlers registered when the MQTT service does not carry the mark
SessionServiceMQTT_init(w) ==
    LET m == IF w.manager = 0 THEN w.managers + 1 ELSE w.manager
        c == IF w.controller = 0 THEN w.controllers + 1 ELSE w.controller
    IN [w EXCEPT !.manager = m,
                 !.managers = IF w.manager = 0 THEN @ + 1 ELSE @,
                 !.controller = c,
                 !.controllers = IF w.controller = 0 THEN @ + 1 ELSE @,
                 !.registered = TRUE,
                 !.handlers = IF w.registered THEN @
                              ELSE [k \in Kinds |-> @[k] + 1],
                 !.instances = @ + 1,
                 !.bound = @ \cup {<<m, c>>}]

\* get_session_service: an instance made with __new__ and given the globals
get_session_service(w) ==
    [w EXCEPT !.instances = @ + 1,
              !.bound = @ \cup {<<w.manager, w.controller>>}]

Init ==
    /\ svc \in {"mqtt", "rest"}
    /\ sessions = Empty
    /\ bess = [soc |-> 100 * SocScale, power |-> 0, mode |-> "idle"]
    /\ db = Empty
    /\ connStatus = [p \in Places |-> "available"]
    /\ lastAvailable = 0
    /\ last = [kind |-> "init", result |-> "ok"]
    /\ nEvents = 0
    /\ published = [p \in Places |-> NoLimit]
    /\ pubNow = {}
    /\ tasks = {}
    /\ stopped = {}
    /\ acked = {}
    /\ dropped = {}
    /\ bessCmd = NoCommand
    /\ listening = TRUE
    /\ discarded = 0
    /\ updatedAt = Empty
    /\ connected = TRUE
    /\ \* the lifespan of main constructs the first service
       wiring = SessionServiceMQTT_init(Unwired)

----------------------------------------------------------------------------
(* Inputs the environment may present *)

\* a start names a place of the topology, a charger the topology does not
\* have, or a connector its charger does not have
StartPlaces == Places \cup {<<"CP999", 1>>, <<"CP002", 2>>}
VehiclePowers == {1500, 2500}
\* charger telemetry reports power in watts
TelemetryPowersW == {50000}
\* session updates: <<consumed_power, vehicle_max_power, energy_delivered>>
UpdateReports == {<<1500, 500, 50>>, <<0, 2500, 48>>}
StopEnergies == {125}
\* BESS status reports: <<soc in percent, power>>
BessReports == {<<5, 0>>, <<10, -500>>, <<50, 500>>}

\* Session identifiers are opaque strings chosen by the sender; a new
\* session presents the first identifier not used so far.
FreshIds == SessionIds \ DOMAIN db
NextId == {id \in FreshIds : \A j \in FreshIds : id <= j}

\* MQTTService.publish_power_limit for every element of the set pubs
Publish(limits, pubs) ==
    [p \in DOMAIN limits |->
        IF \E e \in pubs : <<e[2], e[3]>> = p
        THEN (CHOOSE e \in pubs : <<e[2], e[3]>> = p)[4]
        ELSE limits[p]]

\* MQTTService.publish_power_limit hands the limits to the client only
\* while it is connected; otherwise it logs an error and returns False
Delivered(pubs) == IF connected THEN pubs ELSE {}

\* what handle_session_update_global publishes once update_power_and_energy
\* has returned new_allocated: the limit of the updated session, when the
\* registry (S) still holds it with an allocatedPower more than 0.5 kW away
LimitCorrection(S, session_id, new_allocated) ==
    IF /\ session_id \in DOMAIN S
       /\ Abs(S[session_id].allocatedPower - new_allocated) > 5
    THEN {<<session_id, S[session_id].chargerId, S[session_id].connectorId,
            new_allocated>>}
    ELSE {}

Handled(kind, result) ==
    /\ last' = [kind |-> kind, result |-> result]
    /\ nEvents' = nEvents + 1

----------------------------------------------------------------------------
(* Operations *)

\* SessionServiceMQTT.create_session / SessionService.create_session, as
\* called by handle_session_start_global and by POST /sessions
create_session(session_id, charger_id, connector_id, vehicle_max_power) ==
    /\ nEvents < MaxEvents
    /\ IF charger_id \notin Chargers
       THEN /\ Handled("start", "UNKNOWN_CHARGER")
            /\ pubNow' = {}
            /\ bessCmd' = NoCommand
            /\ UNCHANGED <<svc, sessions, bess, db, connStatus, lastAvailable,
                           published, loopVars, faultVars>>
       ELSE IF connector_id \notin Connectors(charger_id)
       THEN /\ Handled("start", "UNKNOWN_CONNECTOR")
            /\ pubNow' = {}
            /\ bessCmd' = NoCommand
            /\ UNCHANGED <<svc, sessions, bess, db, connStatus, lastAvailable,
                           published, loopVars, faultVars>>
       ELSE IF session_id \in DOMAIN db
       THEN \* the insert violates the unique session_id: the handler dies
            \* after the connector status was committed
            /\ connStatus' = [connStatus EXCEPT ![<<charger_id, connector_id>>] = "occupied"]
            /\ Handled("start", "raised")
            /\ pubNow' = {}
            /\ bessCmd' = NoCommand
            /\ UNCHANGED <<svc, sessions, bess, db, lastAvailable, published,
                           loopVars, faultVars>>
       ELSE LET S1 == handle_session_start(sessions, session_id, charger_id,
                                           connector_id, vehicle_max_power)
                allocated == S1[session_id].allocatedPower
                T1 == (session_id :> NewRow(charger_id, connector_id, vehicle_max_power)) @@ db
            IN /\ connStatus' = [connStatus EXCEPT ![<<charger_id, connector_id>>] = "occupied"]
               /\ sessions' = S1
               /\ db' = repo_update_power(T1, session_id, 0, allocated,
                                          vehicle_max_power, -1)
               /\ lastAvailable' = total_available(None)
               /\ bess' = optimize_bess(S1, bess)
               /\ bessCmd' = bess_command(S1, bess)
               /\ \* handle_session_start_global: the limit of the new
                  \* session's connector, and of no other
                  pubNow' = IF svc = "mqtt"
                            THEN Delivered({<<session_id, charger_id, connector_id, allocated>>})
                            ELSE {}
               /\ published' = Publish(published, pubNow')
               /\ Handled("start", "ok")
               /\ UNCHANGED <<svc, loopVars, faultVars>>

\* a stop that reallocates and goes on to persistence whatever the registry
\* holds
stop_session_unguarded(session_id, consumed_energy) ==
    /\ nEvents < MaxEvents
    /\ sessions' = handle_session_stop(sessions, session_id)
    /\ lastAvailable' = LogAvailable(sessions', None)
    /\ Handled("stop", "raised")
    /\ pubNow' = {}
    /\ bessCmd' = NoCommand
    /\ UNCHANGED <<svc, bess, db, connStatus, published, loopVars, faultVars>>

\* stop_session of either coordinator: the registry is updated, then the
\* call of session_repo.complete_session, a method SessionRepository does
\* not have, raises and ends the handler
stop_session(session_id, consumed_energy) ==
    /\ nEvents < MaxEvents
    /\ IF session_id \notin DOMAIN sessions
       THEN /\ Handled("stop", "SESSION_NOT_FOUND")
            /\ pubNow' = {}
            /\ bessCmd' = NoCommand
            /\ UNCHANGED <<svc, sessions, bess, db, connStatus, lastAvailable,
                           published, loopVars, faultVars>>
       ELSE /\ sessions' = handle_session_stop(sessions, session_id)
            /\ lastAvailable' = LogAvailable(sessions', None)
            /\ Handled("stop", "raised")
            /\ pubNow' = {}
            /\ bessCmd' = NoCommand
            /\ UNCHANGED <<svc, bess, db, connStatus, published, loopVars, faultVars>>

\* SessionServiceMQTT.update_power_and_energy, as called by
\* handle_session_update_global; what becomes of the message's timestamp
\* is left to the caller
update_power_and_energy(session_id, consumed_power, vehicle_max_power, total_energy) ==
    /\ nEvents < MaxEvents
    /\ svc = "mqtt"
    /\ IF session_id \notin DOMAIN sessions
       THEN /\ Handled("update", "SESSION_NOT_FOUND")
            /\ pubNow' = {}
            /\ bessCmd' = NoCommand
            /\ UNCHANGED <<svc, sessions, bess, db, connStatus, lastAvailable,
                           published, loopVars>>
       ELSE LET S1 == [sessions EXCEPT ![session_id].consumedPower = consumed_power,
                                       ![session_id].vehicleMaxPower = vehicle_max_power,
                                       ![session_id].totalEnergy = total_energy]
                bess_status == get_status(bess)
                allocations == calculate_power_allocation(S1, bess_status)
            IN /\ sessions' = ApplyAllocations(S1, allocations)
               /\ db' = repo_update_power(db, session_id, consumed_power,
                                          allocations[session_id],
                                          vehicle_max_power, total_energy)
               /\ lastAvailable' = total_available(bess_status)
               /\ \* handle_session_update_global compares the session's
                  \* allocatedPower, already overwritten, with new_allocated
                  pubNow' = Delivered(LimitCorrection(sessions', session_id,
                                                      allocations[session_id]))
               /\ bessCmd' = NoCommand
               /\ published' = Publish(published, pubNow')
               /\ Handled("update", "ok")
               /\ UNCHANGED <<svc, bess, connStatus, loopVars>>

\* SessionService.update_power
update_power(session_id, consumed_power, vehicle_max_power) ==
    /\ nEvents < MaxEvents
    /\ svc = "rest"
    /\ LET bess_status == get_status(bess)
           S1 == handle_power_update(sessions, session_id, consumed_power,
                                     vehicle_max_power, bess_status)
           new_allocated == IF session_id \in DOMAIN S1
                            THEN S1[session_id].allocatedPower ELSE 0
           b1 == optimize_bess(S1, bess)
       IN /\ sessions' = S1
          /\ db' = repo_update_power(db, session_id, consumed_power,
                                     new_allocated, vehicle_max_power, -1)
          /\ bess' = IF b1.power # 0 THEN apply_power(b1, b1.power, 1) ELSE b1
          /\ lastAvailable' = IF session_id \in DOMAIN sessions
                              THEN total_available(bess_status) ELSE lastAvailable
          /\ Handled("update", IF session_id \in DOMAIN sessions
                               THEN "ok" ELSE "SESSION_NOT_FOUND")
          /\ pubNow' = {}
          /\ bessCmd' = bess_command(S1, bess)
          /\ UNCHANGED <<svc, connStatus, published, loopVars, faultVars>>

\* handle_charger_telemetry_global; power arrives in watts
handle_charger_telemetry_global(session_id, power) ==
    /\ nEvents < MaxEvents
    /\ svc = "mqtt"
    /\ sessions' = IF session_id \in DOMAIN sessions
                   THEN [sessions EXCEPT ![session_id].consumedPower = power \div 100]
                   ELSE sessions
    /\ Handled("telemetry", "ok")
    /\ pubNow' = {}
    /\ bessCmd' = NoCommand
    /\ UNCHANGED <<svc, bess, db, connStatus, lastAvailable, published, loopVars, faultVars>>

\* a BESS status handler that runs the allocator on the new snapshot
handle_bess_status_reallocating(soc, power) ==
    /\ nEvents < MaxEvents
    /\ svc = "mqtt"
    /\ bess' = update_from_telemetry(bess, soc * SocScale, power)
    /\ sessions' = ApplyAllocations(sessions,
                        calculate_power_allocation(sessions, get_status(bess')))
    /\ lastAvailable' = LogAvailable(sessions, get_status(bess'))
    /\ Handled("bess", "ok")
    /\ pubNow' = {}
    /\ bessCmd' = NoCommand
    /\ UNCHANGED <<svc, db, connStatus, published, loopVars, faultVars>>

\* handle_bess_status_global; soc arrives in percent
handle_bess_status_global(soc, power) ==
    /\ nEvents < MaxEvents
    /\ svc = "mqtt"
    /\ bess' = update_from_telemetry(bess, soc * SocScale, power)
    /\ Handled("bess", "ok")
    /\ pubNow' = {}
    /\ bessCmd' = NoCommand
    /\ UNCHANGED <<svc, sessions, db, connStatus, lastAvailable, published, loopVars, faultVars>>

Next ==
    \/ \E id \in NextId, p \in StartPlaces, v \in VehiclePowers :
          create_session(id, p[1], p[2], v)
    \/ \* a start message delivered again (at-least-once delivery)
       \E id \in DOMAIN db :
          create_session(id, db[id].charger, db[id].connector,
                         db[id].vehicle_max_power)
    \/ \E id \in SessionIds, e \in StopEnergies : stop_session(id, e)
    \/ \E id \in SessionIds, u \in UpdateReports :
          update_power_and_energy(id, u[1], u[2], u[3]) /\ UNCHANGED faultVars
    \/ \E id \in SessionIds, u \in UpdateReports : update_power(id, u[1], u[2])
    \/ \E id \in SessionIds, w \in TelemetryPowersW :
          handle_charger_telemetry_global(id, w)
    \/ \E r \in BessReports : handle_bess_status_global(r[1], r[2])

Spec == Init /\ [][Next]_vars

----------------------------------------------------------------------------
(* The deployed process under concurrent messages.  MQTTService._on_message  *)
(* hands every message to the event loop (run_coroutine_threadsafe), where   *)
(* the handlers start in arrival order and run until they await the          *)
(* database; a suspended handler resumes whenever its query is done, other   *)
(* handlers having run in between.  POST /sessions runs create_session on    *)
(* the same loop.                                                            *)

\* a suspended handler: what it was called with, where it waits (pc) and the
\* allocation it holds in a local variable
Task(kind, origin, session_id, charger_id, connector_id, vehicle_max_power, consumed_power, total_energy, pc, allocated) ==
    [kind |-> kind, origin |-> origin, id |-> session_id,
     chargerId |-> charger_id, connectorId |-> connector_id,
     vehicleMaxPower |-> vehicle_max_power, consumedPower |-> consumed_power,
     totalEnergy |-> total_energy, pc |-> pc, allocated |-> allocated]

\* the task t moved on to wait at pc, holding allocated
Suspend(t, pc, allocated) ==
    (tasks \ {t}) \cup {[t EXCEPT !.pc = pc, !.allocated = allocated]}

\* who may start a session: a charger over MQTT, a client over HTTP
Origins == {"device", "http"}
AsyncStartPlaces == {<<"CP001", 1>>, <<"CP999", 1>>}
AsyncVehiclePowers == {1500}
AsyncUpdateReports == {<<0, 2500, 48>>}

\* identifiers no start has presented yet
AsyncFreshIds == SessionIds \ (DOMAIN db \cup {t.id : t \in tasks})
AsyncNextId == {id \in AsyncFreshIds : \A j \in AsyncFreshIds : id <= j}

\* a start is acknowledged from every point of its handler on
Acknowledged_early(pc, session_id) == {session_id}

\* the sessions a start handler resuming at pc acknowledges: the power limit
\* (device) or the start command and the HTTP response (client) follow the
\* return of create_session
Acknowledged(pc, session_id) == IF pc = "policy" THEN {session_id} ELSE {}

\* a SessionStart arrives: handle_session_start_global / POST /sessions call
\* create_session, which suspends on the charger lookup
session_start_arrives(origin, session_id, charger_id, connector_id, vehicle_max_power) ==
    /\ nEvents < MaxEvents
    /\ tasks' = tasks \cup {Task("start", origin, session_id, charger_id,
                                 connector_id, vehicle_max_power, 0, 0,
                                 "lookup", 0)}
    /\ Handled("start", "suspended")
    /\ pubNow' = {}
    /\ bessCmd' = NoCommand
    /\ UNCHANGED <<svc, sessions, bess, db, connStatus, lastAvailable,
                   published, stopped, acked, dropped, faultVars>>

\* create_session (and its caller) resumes from the await the task t is at
create_session_resumes(t) ==
    /\ t \in tasks
    /\ t.kind = "start"
    /\ acked' = acked \cup Acknowledged(t.pc, t.id)
    /\ UNCHANGED <<svc, nEvents, stopped, dropped, faultVars>>
    /\ IF t.pc = "lookup"
       THEN \* the charger and the connector have been looked up and, when
            \* the topology has them, the connector status written
            /\ IF t.chargerId \notin Chargers
               THEN /\ last' = [kind |-> "start", result |-> "UNKNOWN_CHARGER"]
                    /\ tasks' = tasks \ {t}
                    /\ UNCHANGED connStatus
               ELSE IF t.connectorId \notin Connectors(t.chargerId)
               THEN /\ last' = [kind |-> "start", result |-> "UNKNOWN_CONNECTOR"]
                    /\ tasks' = tasks \ {t}
                    /\ UNCHANGED connStatus
               ELSE /\ last' = [kind |-> "start", result |-> "suspended"]
                    /\ tasks' = Suspend(t, "insert", 0)
                    /\ connStatus' = [connStatus EXCEPT ![<<t.chargerId, t.connectorId>>] = "occupied"]
            /\ pubNow' = {}
            /\ bessCmd' = NoCommand
            /\ UNCHANGED <<sessions, bess, db, lastAvailable, published>>
       ELSE IF t.pc = "insert"
       THEN \* the row has been inserted, or the insert has failed; then the
            \* registry insertion and the allocator run without suspension
            IF t.id \in DOMAIN db
            THEN /\ last' = [kind |-> "start", result |-> "raised"]
                 /\ tasks' = tasks \ {t}
                 /\ pubNow' = {}
                 /\ bessCmd' = NoCommand
                 /\ UNCHANGED <<sessions, bess, db, connStatus, lastAvailable, published>>
            ELSE LET S1 == handle_session_start(sessions, t.id, t.chargerId,
                                                t.connectorId, t.vehicleMaxPower)
                 IN /\ db' = (t.id :> NewRow(t.chargerId, t.connectorId, t.vehicleMaxPower)) @@ db
                    /\ sessions' = S1
                    /\ lastAvailable' = total_available(None)
                    /\ last' = [kind |-> "start", result |-> "suspended"]
                    /\ tasks' = Suspend(t, "persist", S1[t.id].allocatedPower)
                    /\ pubNow' = {}
                    /\ bessCmd' = NoCommand
                    /\ UNCHANGED <<bess, connStatus, published>>
       ELSE IF t.pc = "persist"
       THEN \* session_repo.update_power has written the allocation
            /\ db' = repo_update_power(db, t.id, 0, t.allocated, t.vehicleMaxPower, -1)
            /\ last' = [kind |-> "start", result |-> "suspended"]
            /\ tasks' = Suspend(t, "policy", t.allocated)
            /\ pubNow' = {}
            /\ bessCmd' = NoCommand
            /\ UNCHANGED <<sessions, bess, connStatus, lastAvailable, published>>
       ELSE \* "policy": the event is logged and the BESS policy has run;
            \* create_session returns the allocation it holds and
            \* handle_session_start_global publishes it
            /\ bess' = optimize_bess(sessions, bess)
            /\ bessCmd' = bess_command(sessions, bess)
            /\ pubNow' = IF t.origin = "device"
                         THEN {<<t.id, t.chargerId, t.connectorId, t.allocated>>}
                         ELSE {}
            /\ published' = Publish(published, pubNow')
            /\ last' = [kind |-> "start", result |-> "ok"]
            /\ tasks' = tasks \ {t}
            /\ UNCHANGED <<sessions, db, connStatus, lastAvailable>>

\* handle_session_stop_global: stop_session runs to its end without
\* suspension (the registry is updated, then complete_session raises)
handle_session_stop_global(session_id, total_energy) ==
    /\ nEvents < MaxEvents
    /\ IF session_id \notin DOMAIN sessions
       THEN /\ Handled("stop", "SESSION_NOT_FOUND")
            /\ UNCHANGED <<sessions, lastAvailable, stopped>>
       ELSE /\ sessions' = handle_session_stop(sessions, session_id)
            /\ lastAvailable' = LogAvailable(sessions', None)
            /\ stopped' = stopped \cup {session_id}
            /\ Handled("stop", "raised")
    /\ pubNow' = {}
    /\ bessCmd' = NoCommand
    /\ UNCHANGED <<svc, bess, db, connStatus, published, tasks, acked, dropped, faultVars>>

\* a session/update arrives: handle_session_update_global calls
\* update_power_and_energy, which looks the session up, reallocates and
\* suspends on session_repo.update_power
handle_session_update_global(session_id, consumed_power, vehicle_max_power, total_energy) ==
    /\ nEvents < MaxEvents
    /\ IF session_id \notin DOMAIN sessions
       THEN /\ Handled("update", "SESSION_NOT_FOUND")
            /\ dropped' = IF \E t \in tasks : t.kind = "start" /\ t.id = session_id
                                              /\ t.pc \in {"lookup", "insert"}
                                              /\ t.id \notin DOMAIN db
                          THEN dropped \cup {session_id} ELSE dropped
            /\ UNCHANGED <<sessions, lastAvailable, tasks>>
       ELSE LET S1 == [sessions EXCEPT ![session_id].consumedPower = consumed_power,
                                       ![session_id].vehicleMaxPower = vehicle_max_power,
                                       ![session_id].totalEnergy = total_energy]
                bess_status == get_status(bess)
                allocations == calculate_power_allocation(S1, bess_status)
            IN /\ sessions' = ApplyAllocations(S1, allocations)
               /\ lastAvailable' = total_available(bess_status)
               /\ tasks' = tasks \cup {Task("update", "device", session_id,
                                            sessions[session_id].chargerId,
                                            sessions[session_id].connectorId,
                                            vehicle_max_power, consumed_power,
                                            total_energy, "persist",
                                            allocations[session_id])}
               /\ Handled("update", "suspended")
               /\ UNCHANGED dropped
    /\ pubNow' = {}
    /\ bessCmd' = NoCommand
    /\ UNCHANGED <<svc, bess, db, connStatus, published, stopped, acked, faultVars>>

\* update_power_and_energy resumes from session_repo.update_power and
\* returns; handle_session_update_global decides on the publication
update_power_and_energy_resumes(t) ==
    /\ t \in tasks
    /\ t.kind = "update"
    /\ db' = repo_update_power(db, t.id, t.consumedPower, t.allocated,
                               t.vehicleMaxPower, t.totalEnergy)
    /\ pubNow' = LimitCorrection(sessions, t.id, t.allocated)
    /\ bessCmd' = NoCommand
    /\ published' = Publish(published, pubNow')
    /\ last' = [kind |-> "update", result |-> "ok"]
    /\ tasks' = tasks \ {t}
    /\ UNCHANGED <<svc, sessions, bess, connStatus, lastAvailable, nEvents,
                   stopped, acked, dropped, faultVars>>

InitAsync == Init /\ svc = "mqtt"

NextAsync ==
    \/ \E o \in Origins, id \in AsyncNextId, p \in AsyncStartPlaces, v \in AsyncVehiclePowers :
          session_start_arrives(o, id, p[1], p[2], v)
    \/ \* a start message delivered again
       \E id \in DOMAIN db :
          session_start_arrives("device", id, db[id].charger, db[id].connector,
                                db[id].vehicle_max_power)
    \/ \E t \in tasks : create_session_resumes(t)
    \/ \E id \in SessionIds, e \in StopEnergies : handle_session_stop_global(id, e)
    \/ \E id \in SessionIds, u \in AsyncUpdateReports :
          handle_session_update_global(id, u[1], u[2], u[3])
    \/ \E t \in tasks : update_power_and_energy_resumes(t)

SpecAsync == InitAsync /\ [][NextAsync]_vars


----------------------------------------------------------------------------
(* The BESS policy under the battery states a real battery reports: the    *)
(* deployed coordinator, session starts and updates, and status reports    *)
(* with a state of charge that is not a whole percent.  A status report is *)
(* not counted as a session event.                                         *)

\* reported states of charge, in hundredths of a percent
PolicySocs == {1000, 1004, 5000, 9800, 10000}
PolicyPlaces == {<<"CP001", 1>>, <<"CP001", 2>>, <<"CP002", 1>>}
\* session updates: <<consumed_power, vehicle_max_power, energy_delivered>>
PolicyUpdateReports == {<<1200, 1500, 50>>}

\* handle_bess_status_global for a battery at rest reporting soc
bess_status_reported(soc) ==
    /\ svc = "mqtt"
    /\ bess' = update_from_telemetry(bess, soc * (SocScale \div 100), 0)
    /\ last' = [kind |-> "bess", result |-> "ok"]
    /\ pubNow' = {}
    /\ bessCmd' = NoCommand
    /\ UNCHANGED <<svc, sessions, db, connStatus, lastAvailable, nEvents,
                   published, loopVars, faultVars>>

InitPolicy == Init /\ svc = "mqtt"

NextPolicy ==
    \/ \E id \in NextId, p \in PolicyPlaces, v \in VehiclePowers :
          create_session(id, p[1], p[2], v)
    \/ \E id \in SessionIds, u \in PolicyUpdateReports :
          update_power_and_energy(id, u[1], u[2], u[3]) /\ UNCHANGED faultVars
    \/ \E soc \in PolicySocs : bess_status_reported(soc)

SpecPolicy == InitPolicy /\ [][NextPolicy]_vars

----------------------------------------------------------------------------
(* The MQTT coordinator under faulty input: messages that do not decode,   *)
(* persistence writes that fail, and session updates delivered out of the  *)
(* order of their timestamps.                                              *)

\* how a message fails to decode: json.loads raises, or the payload does
\* not fit the message class of its topic
Malformations == {"json", "schema"}
Topics == {"start", "stop", "update", "telemetry", "bess"}
\* timestamps of session-update messages
Timestamps == 1..2
FaultPlaces == {<<"CP001", 1>>, <<"CP002", 1>>}
\* session updates: <<consumed_power, vehicle_max_power, energy_delivered>>
FaultUpdateReports == {<<1500, 500, 50>>, <<0, 2500, 48>>}
\* the awaited writes of create_session, in program order
StartWrites == <<"update_status", "create", "update_power", "event">>

\* a decoding error that escapes the network thread's callback: the
\* adapter stops and the registry is lost with the process
on_message_uncaught(topic, how) ==
    /\ nEvents < MaxEvents
    /\ svc = "mqtt"
    /\ Handled(topic, "PROTOCOL_ERROR")
    /\ discarded' = discarded + 1
    /\ listening' = FALSE
    /\ sessions' = Empty
    /\ pubNow' = {}
    /\ bessCmd' = NoCommand
    /\ UNCHANGED <<svc, bess, db, connStatus, lastAvailable,
                   published, loopVars, updatedAt, connected, wiring>>

\* MQTTService._on_message and the _handle_* coroutines on a message that
\* does not decode: the error is logged, no handler is called
on_message_malformed(topic, how) ==
    /\ nEvents < MaxEvents
    /\ svc = "mqtt"
    /\ Handled(topic, "PROTOCOL_ERROR")
    /\ discarded' = discarded + 1
    /\ pubNow' = {}
    /\ bessCmd' = NoCommand
    /\ UNCHANGED <<svc, sessions, bess, db, connStatus, lastAvailable,
                   published, loopVars, listening, updatedAt, connected, wiring>>

\* handle_session_start_global when the k-th awaited write of
\* create_session raises, for a known place and an identifier not in use:
\* the writes before it are committed, the statements after it do not run,
\* the handler logs the error and publishes nothing
create_session_write_fails(session_id, charger_id, connector_id, vehicle_max_power, k) ==
    LET S1 == handle_session_start(sessions, session_id, charger_id,
                                   connector_id, vehicle_max_power)
        T1 == (session_id :> NewRow(charger_id, connector_id, vehicle_max_power)) @@ db
    IN /\ nEvents < MaxEvents
       /\ svc = "mqtt"
       /\ charger_id \in Chargers
       /\ connector_id \in Connectors(charger_id)
       /\ session_id \notin DOMAIN db
       /\ connStatus' = IF k > 1
                        THEN [connStatus EXCEPT ![<<charger_id, connector_id>>] = "occupied"]
                        ELSE connStatus
       /\ sessions' = IF k > 2 THEN S1 ELSE sessions
       /\ lastAvailable' = IF k > 2 THEN total_available(None) ELSE lastAvailable
       /\ db' = IF k > 3
                THEN repo_update_power(T1, session_id, 0, S1[session_id].allocatedPower,
                                       vehicle_max_power, -1)
                ELSE IF k > 2 THEN T1 ELSE db
       /\ Handled("start", "PERSISTENCE_ERROR")
       /\ pubNow' = {}
       /\ bessCmd' = NoCommand
       /\ UNCHANGED <<svc, bess, published, loopVars, faultVars>>

\* handle_session_update_global when the write of update_power_and_energy
\* raises: the registry is updated and reallocated, the row is not, no
\* limit is published
update_power_and_energy_write_fails(session_id, consumed_power, vehicle_max_power, total_energy) ==
    LET S1 == [sessions EXCEPT ![session_id].consumedPower = consumed_power,
                               ![session_id].vehicleMaxPower = vehicle_max_power,
                               ![session_id].totalEnergy = total_energy]
        bess_status == get_status(bess)
    IN /\ nEvents < MaxEvents
       /\ svc = "mqtt"
       /\ session_id \in DOMAIN sessions
       /\ sessions' = ApplyAllocations(S1, calculate_power_allocation(S1, bess_status))
       /\ lastAvailable' = total_available(bess_status)
       /\ Handled("update", "PERSISTENCE_ERROR")
       /\ pubNow' = {}
       /\ bessCmd' = NoCommand
       /\ UNCHANGED <<svc, bess, db, connStatus, published, loopVars, faultVars>>

\* a SessionUpdateMessage carrying timestamp, handled by
\* handle_session_update_global: the timestamp is not passed on to
\* update_power_and_energy
session_update_message(timestamp, session_id, consumed_power, vehicle_max_power, energy_delivered) ==
    /\ update_power_and_energy(session_id, consumed_power, vehicle_max_power,
                               energy_delivered)
    /\ updatedAt' = IF session_id \notin DOMAIN sessions THEN updatedAt
                    ELSE IF session_id \in DOMAIN updatedAt
                    THEN [updatedAt EXCEPT ![session_id] = Max(@, timestamp)]
                    ELSE (session_id :> timestamp) @@ updatedAt
    /\ UNCHANGED <<listening, discarded, connected, wiring>>

InitFaults == Init /\ svc = "mqtt"

\* a message is taken while the adapter is up
NextFaults ==
    \/ \E id \in NextId, p \in FaultPlaces, v \in VehiclePowers :
          listening /\ create_session(id, p[1], p[2], v)
    \/ \E id \in SessionIds, e \in StopEnergies :
          listening /\ stop_session(id, e)
    \/ \E ts \in Timestamps, id \in SessionIds, u \in FaultUpdateReports :
          listening /\ session_update_message(ts, id, u[1], u[2], u[3])
    \/ \E r \in BessReports :
          listening /\ handle_bess_status_global(r[1], r[2])
    \/ \E topic \in Topics, how \in Malformations :
          listening /\ on_message_malformed(topic, how)
    \/ \E id \in NextId, p \in FaultPlaces, v \in VehiclePowers,
          k \in DOMAIN StartWrites :
          listening /\ create_session_write_fails(id, p[1], p[2], v, k)
    \/ \E id \in SessionIds, u \in FaultUpdateReports :
          listening /\ update_power_and_energy_write_fails(id, u[1], u[2], u[3])

SpecFaults == InitFaults /\ [][NextFaults]_vars

----------------------------------------------------------------------------
(* The MQTT coordinator while the connection to the broker comes and goes. *)
(* A handler that was started by a message can reach its publish after the *)
(* connection dropped; the client reconnects by itself.                    *)

FabricPlaces == {<<"CP001", 1>>, <<"CP001", 2>>, <<"CP002", 1>>}
\* session updates: <<consumed_power, vehicle_max_power, energy_delivered>>
FabricUpdateReports == {<<1500, 500, 50>>, <<0, 2500, 48>>}

\* MQTTService._on_connect with rc = 0
on_connect ==
    /\ ~connected
    /\ connected' = TRUE
    /\ last' = [kind |-> "connect", result |-> "ok"]
    /\ pubNow' = {}
    /\ bessCmd' = NoCommand
    /\ UNCHANGED <<svc, sessions, bess, db, connStatus, lastAvailable, nEvents,
                   published, loopVars, listening, discarded, updatedAt, wiring>>

\* MQTTService._on_disconnect
on_disconnect ==
    /\ connected
    /\ connected' = FALSE
    /\ last' = [kind |-> "disconnect", result |-> "ok"]
    /\ pubNow' = {}
    /\ bessCmd' = NoCommand
    /\ UNCHANGED <<svc, sessions, bess, db, connStatus, lastAvailable, nEvents,
                   published, loopVars, listening, discarded, updatedAt, wiring>>

InitFabric == Init /\ svc = "mqtt"

NextFabric ==
    \/ \E id \in NextId, p \in FabricPlaces, v \in VehiclePowers :
          create_session(id, p[1], p[2], v)
    \/ \E id \in SessionIds, e \in StopEnergies : stop_session(id, e)
    \/ \E id \in SessionIds, u \in FabricUpdateReports :
          update_power_and_energy(id, u[1], u[2], u[3]) /\ UNCHANGED faultVars
    \/ on_connect
    \/ on_disconnect

SpecFabric == InitFabric /\ [][NextFabric]_vars

\* the client's network loop reconnects by itself; which messages arrive
\* is up to the devices
SpecFabricLive == SpecFabric /\ WF_vars(on_connect)

----------------------------------------------------------------------------
(* The deployed process with the service instances it constructs: every    *)
(* handler invocation and every HTTP request builds its own                *)
(* SessionServiceMQTT before it calls the operation.                       *)

WiredPlaces == {<<"CP001", 1>>, <<"CP002", 1>>}
\* session updates: <<consumed_power, vehicle_max_power, energy_delivered>>
WiredUpdateReports == {<<0, 2500, 48>>}
SessionKinds == {"start", "stop", "update"}

\* a service is being constructed for a message or request
Constructing == wiring.instances = nEvents + 2

\* MQTTService._handle_session_*: the message goes to every handler of the
\* list of its kind, and each handler constructs a service
session_message_dispatched(kind) ==
    /\ svc = "mqtt"
    /\ nEvents < MaxEvents
    /\ ~Constructing
    /\ wiring' = [SessionServiceMQTT_init(wiring) EXCEPT
                     !.pending = kind, !.invoked = wiring.handlers[kind]]
    /\ UNCHANGED <<svc, sessions, bess, db, connStatus, lastAvailable, last,
                   nEvents, published, pubNow, loopVars, bessCmd, listening,
                   discarded, updatedAt, connected>>

\* a request to one of the session routes: Depends(get_session_service)
\* builds the service, the route calls the operation once
session_request_received(kind) ==
    /\ svc = "mqtt"
    /\ nEvents < MaxEvents
    /\ ~Constructing
    /\ wiring' = [get_session_service(wiring) EXCEPT
                     !.pending = kind, !.invoked = 1]
    /\ UNCHANGED <<svc, sessions, bess, db, connStatus, lastAvailable, last,
                   nEvents, published, pubNow, loopVars, bessCmd, listening,
                   discarded, updatedAt, connected>>

InitWired == Init /\ svc = "mqtt"

NextWired ==
    \/ \E kind \in SessionKinds : session_message_dispatched(kind)
    \/ \E kind \in SessionKinds : session_request_received(kind)
    \/ \E id \in NextId, p \in WiredPlaces, v \in VehiclePowers :
          Constructing /\ wiring.pending = "start"
          /\ create_session(id, p[1], p[2], v)
    \/ \E id \in SessionIds, e \in StopEnergies :
          Constructing /\ wiring.pending = "stop" /\ stop_session(id, e)
    \/ \E id \in SessionIds, u \in WiredUpdateReports :
          Constructing /\ wiring.pending = "update"
          /\ update_power_and_energy(id, u[1], u[2], u[3]) /\ UNCHANGED faultVars

SpecWired == InitWired /\ [][NextWired]_vars

\* the latest event ran the allocator over the registry
Reallocated ==
    \/ last.kind = "start" /\ last.result = "ok"
    \/ last.kind = "stop" /\ last.result = "raised"
    \/ last.kind = "update" /\ last.result = "ok"

TypeOK ==
    /\ svc \in {"mqtt", "rest"}
    /\ DOMAIN sessions \subseteq SessionIds
    /\ DOMAIN db \subseteq SessionIds
    /\ nEvents \in 0..MaxEvents
    /\ bess.mode \in {"idle", "charging", "discharging", "boost"}
    /\ listening \in BOOLEAN
    /\ discarded \in 0..MaxEvents
    /\ DOMAIN updatedAt \subseteq SessionIds
    /\ connected \in BOOLEAN
    /\ wiring.instances \in 1..(MaxEvents + 1)

----------------------------------------------------------------------------
(* Properties *)

\* registry sessions on charger c
OnCharger(c) == {x \in DOMAIN sessions : sessions[x].chargerId = c}

\* no connector is held by two registry sessions
OneSessionPerConnector ==
    \A x, y \in DOMAIN sessions :
        x # y => \/ sessions[x].chargerId # sessions[y].chargerId
                 \/ sessions[x].connectorId # sessions[y].connectorId

SumAllocated ==
    SumOver([x \in DOMAIN sessions |-> sessions[x].allocatedPower], DOMAIN sessions)

\* C1, as stated (P1): in every reachable state, battery telemetry included,
\* the allocatedPower of the active sessions sums to at most gridCapacity -
\* staticLoad + the battery's present available discharge, with a rounding
\* allowance of 0.1 kW per session.
C1_GridCompliance ==
    SumAllocated <= (gridCapacity - staticLoad)
                    + calculate_available_discharge(bess)
                    + Cardinality(DOMAIN sessions)

\* C1, amended: the bound of P1 holds in the state left by a SessionStart,
\* SessionStop or PowerUpdate that ran the allocator; battery telemetry does
\* not re-run the allocator and may leave the sum above the bound.
C1_GridComplianceAfterAllocation == Reallocated => C1_GridCompliance

\* a power update has drawn on the battery: the sum exceeds the grid share
C1_Witness ==
    /\ last = [kind |-> "update", result |-> "ok"]
    /\ SumAllocated > gridCapacity - staticLoad

\* C2 (P2): every active session's allocatedPower is at most
\* min(vehicleMaxPower, charger maxPower / N), N the number of connectors of
\* its charger in use, with no rounding allowance.
C2_PerSessionBound ==
    OneSessionPerConnector =>
        \A x \in DOMAIN sessions :
            /\ sessions[x].allocatedPower <= sessions[x].vehicleMaxPower
            /\ sessions[x].allocatedPower
                   * Cardinality(OnCharger(sessions[x].chargerId))
                 <= maxPower[sessions[x].chargerId]

\* C3 (P3): a (chargerId, connectorId) pair is held by at most one active
\* session at any time.
C3_ConnectorExclusivity ==
    \A p \in Places :
        Cardinality({x \in DOMAIN sessions :
                        <<sessions[x].chargerId, sessions[x].connectorId>> = p}) <= 1

\* C4 (P4): the controller's state of charge is within [minSOC, maxSOC] in
\* every reachable state.
C4_SocWithinBounds ==
    /\ minSOC * SocScale <= bess.soc
    /\ bess.soc <= maxSOC * SocScale

\* C5 (P5): the stored totalEnergy of a session never decreases while the
\* session is active.
C5_MonotonicEnergy ==
    [][\A x \in DOMAIN sessions \cap DOMAIN sessions' :
          sessions'[x].totalEnergy >= sessions[x].totalEnergy]_vars

\* C6 (S1): after a SessionStart, SessionStop or PowerUpdate has been
\* handled, offeredPower equals allocatedPower for every active session.
C6_OfferedEqualsAllocated ==
    last.kind \in {"start", "stop", "update"} =>
        \A x \in DOMAIN sessions :
            sessions[x].offeredPower = sessions[x].allocatedPower

\* C7 (S2): offeredPower and allocatedPower of a session are at most
\* min(vehicleMaxPower, max_power of its connector).
C7_NameplateBound ==
    \A x \in DOMAIN sessions :
        LET nameplate == max_power[sessions[x].chargerId][sessions[x].connectorId]
            cap == Min(sessions[x].vehicleMaxPower, nameplate)
        IN /\ sessions[x].offeredPower <= cap
           /\ sessions[x].allocatedPower <= cap

\* C8 (S3): 0 <= consumedPower <= offeredPower for every active session.
C8_ConsumedWithinOffered ==
    \A x \in DOMAIN sessions :
        /\ 0 <= sessions[x].consumedPower
        /\ sessions[x].consumedPower <= sessions[x].offeredPower

\* C9 (S4): the allocatedPower of the sessions on one charger sums to at
\* most the charger's maxPower, however many of its connectors are in use.
C9_ChargerLimit ==
    OneSessionPerConnector =>
        \A c \in Chargers :
            SumOver([x \in OnCharger(c) |-> sessions[x].allocatedPower], OnCharger(c))
                <= maxPower[c]

PlaceOf(x) == <<sessions[x].chargerId, sessions[x].connectorId>>

\* C11: a SessionStart naming a charger or a connector the topology does not
\* contain fails with UNKNOWN_CHARGER, respectively UNKNOWN_CONNECTOR, and
\* leaves the registry (every session's allocation with it), the persisted
\* sessions, the connector statuses and the battery state unchanged;
\* nothing is published.
C11_UnknownTopologyRejected ==
    [][\A id \in SessionIds, p \in StartPlaces, v \in VehiclePowers :
          (/\ p[1] \notin Chargers \/ p[2] \notin DOMAIN max_power[p[1]]
           /\ create_session(id, p[1], p[2], v))
          => /\ last' = [kind |-> "start",
                         result |-> IF p[1] \notin Chargers
                                    THEN "UNKNOWN_CHARGER"
                                    ELSE "UNKNOWN_CONNECTOR"]
             /\ pubNow' = {}
             /\ UNCHANGED <<sessions, db, connStatus, bess, published>>]_vars

\* a start was refused for its connector while other sessions are charging
C11_Witness ==
    /\ last = [kind |-> "start", result |-> "UNKNOWN_CONNECTOR"]
    /\ Cardinality(DOMAIN sessions) >= 2

\* C12: a SessionStop for a session the registry does not hold (never
\* started, or stopped already) reports SESSION_NOT_FOUND and leaves the
\* registry, the allocations, the connector statuses and the battery state
\* unchanged.
C12_AbsentStopChangesNothing ==
    [][\A id \in SessionIds \ DOMAIN sessions, e \in StopEnergies :
          stop_session(id, e)
          => /\ last' = [kind |-> "stop", result |-> "SESSION_NOT_FOUND"]
             /\ pubNow' = {}
             /\ UNCHANGED <<sessions, db, connStatus, bess, published>>]_vars

\* a stop found no session although sessions had been started, one of them
\* stopped before
C12_Witness ==
    /\ last = [kind |-> "stop", result |-> "SESSION_NOT_FOUND"]
    /\ DOMAIN db \ DOMAIN sessions # {}

\* C13: a PowerUpdate for a session the registry does not hold fails with
\* SESSION_NOT_FOUND and changes nothing: no session record, allocation or
\* battery state is modified and no power limit is published.
C13_AbsentUpdateChangesNothing ==
    [][\A id \in SessionIds \ DOMAIN sessions, u \in UpdateReports :
          (\/ update_power_and_energy(id, u[1], u[2], u[3])
           \/ update_power(id, u[1], u[2]))
          => /\ last' = [kind |-> "update", result |-> "SESSION_NOT_FOUND"]
             /\ pubNow' = {}
             /\ UNCHANGED <<sessions, db, connStatus, bess, published>>]_vars

\* the allocations of the sessions of set X in registry S, summed
SumAllocatedOver(S, X) == SumOver([x \in X |-> S[x].allocatedPower], X)

\* the demand exceeds what the grid leaves for charging
GridConstrained(S) == total_demand(S) > (gridCapacity - staticLoad) * Scale(S)

\* C14: a SessionStop for a session of the registry removes it, completes
\* its record with the reported energy, leaves every remaining session with
\* the allocator's output over the remaining sessions, and, when the site
\* was grid-constrained before, a strictly larger average allocation of the
\* remaining sessions.
C14_ReallocationOnDeparture ==
    [][\A id \in DOMAIN sessions, e \in StopEnergies :
          stop_session(id, e)
          => LET rest == DOMAIN sessions \ {id}
             IN /\ DOMAIN sessions' = rest
                /\ db'[id].status = "completed"
                /\ db'[id].total_energy = e
                /\ \A x \in rest :
                      sessions'[x].allocatedPower
                          = calculate_power_allocation(sessions', None)[x]
                /\ (GridConstrained(sessions) /\ rest # {})
                      => SumAllocatedOver(sessions', rest)
                             > SumAllocatedOver(sessions, rest)]_vars

\* C15: when a SessionStart has been handled, the limit last published for
\* the connector of every active session, the new one or not, equals that
\* session's allocatedPower.
C15_LimitsPublishedOnStart ==
    (/\ svc = "mqtt"
     /\ last = [kind |-> "start", result |-> "ok"]
     /\ OneSessionPerConnector)
    => \A x \in DOMAIN sessions : published[PlaceOf(x)] = sessions[x].allocatedPower

\* C16: in handling a PowerUpdate a limit is published for exactly the
\* active sessions whose new allocation is more than 0.5 kW away from the
\* limit last published for them, and the limit published is the new
\* allocation.
C16_LimitCorrectionOnUpdate ==
    [][(/\ svc = "mqtt"
        /\ last' = [kind |-> "update", result |-> "ok"]
        /\ OneSessionPerConnector')
       => \A x \in DOMAIN sessions' :
             LET place == <<sessions'[x].chargerId, sessions'[x].connectorId>>
                 new == sessions'[x].allocatedPower
             IN (Abs(new - published[place]) > 5)
                <=> (<<x, place[1], place[2], new>> \in pubNow')]_vars

\* C17: no power limit is published for a session whose stop handler has
\* run to its end, whatever handlers were suspended while it ran.
C17_NoLimitsAfterStop ==
    \A e \in pubNow : e[1] \notin stopped

\* C18: a session whose start has been acknowledged (limit published, start
\* command published or HTTP response sent) has been inserted into the
\* registry: it is there, unless a stop has removed it since, so that a
\* PowerUpdate for it finds it.
C18_AckAfterInsertion ==
    \A x \in acked : x \in DOMAIN sessions \/ x \in stopped

\* an update handler is in flight for an acknowledged session of the
\* registry while another start is still suspended
C18_Witness ==
    /\ \E t \in tasks : t.kind = "update" /\ t.id \in acked \cap DOMAIN sessions
    /\ \E t \in tasks : t.kind = "start"
    /\ \E x \in acked : x \in DOMAIN sessions /\ x \notin stopped

\* C19: no update is dropped as 'session not found' because the start of
\* its session, arrived before it, is still suspended ahead of the registry
\* insertion.
C19_ArrivalOrder ==
    dropped = {}

\* C20 (R1): the allocator run again on the registry and the snapshot it has
\* just been run on, its results applied, returns the allocations it
\* returned; and the run changes no other field of any session and nothing
\* of the battery: the step that runs it changes the reported fields of at
\* most the one session it is about, never the state of charge, and the
\* battery not at all where the handler runs no BESS policy after it (a
\* stop, a session update of SessionServiceMQTT).
C20_AllocatorDeterministicAndPure ==
    [][Reallocated'
       => /\ LET snapshot == IF last'.kind = "update" THEN get_status(bess')
                             ELSE None
             IN \A x \in DOMAIN sessions' :
                   calculate_power_allocation(sessions', snapshot)[x]
                       = sessions'[x].allocatedPower
          /\ \A x \in DOMAIN sessions \cap DOMAIN sessions' :
                /\ sessions'[x].chargerId = sessions[x].chargerId
                /\ sessions'[x].connectorId = sessions[x].connectorId
                /\ sessions'[x].status = sessions[x].status
          /\ Cardinality({x \in DOMAIN sessions \cap DOMAIN sessions' :
                \/ sessions'[x].vehicleMaxPower # sessions[x].vehicleMaxPower
                \/ sessions'[x].consumedPower # sessions[x].consumedPower
                \/ sessions'[x].totalEnergy # sessions[x].totalEnergy}) <= 1
          /\ bess'.soc = bess.soc
          /\ (last'.kind = "stop" \/ (last'.kind = "update" /\ svc = "mqtt"))
                => bess' = bess]_vars

\* a power update over two sessions that drew on the battery snapshot
C20_Witness ==
    /\ last = [kind |-> "update", result |-> "ok"]
    /\ Cardinality(DOMAIN sessions) >= 2
    /\ lastAvailable > gridCapacity - staticLoad

\* C24: a BatteryTelemetry changes the battery state to what it reports and
\* nothing else: every session record, the persisted sessions, the connector
\* statuses and the published limits stay, the allocator is not run, and
\* neither a power limit nor a BESS command is published.
C24_BatteryTelemetryFrame ==
    [][\A r \in BessReports :
          handle_bess_status_global(r[1], r[2])
          => /\ bess' = update_from_telemetry(bess, r[1] * SocScale, r[2])
             /\ pubNow' = {}
             /\ bessCmd' = NoCommand
             /\ UNCHANGED <<sessions, db, connStatus, published, lastAvailable>>]_vars

\* a battery report has left the sessions with more than the grid share and
\* the battery it reports can supply
C24_Witness ==
    /\ last = [kind |-> "bess", result |-> "ok"]
    /\ DOMAIN sessions # {}
    /\ SumAllocated > gridCapacity - staticLoad + calculate_available_discharge(bess)

\* C27 (B1): when a stop has left the registry empty the allocator has
\* nothing to return and the BESS is idle: mode idle, power 0, and the idle
\* command issued.
C27_ZeroSessionsIdle ==
    (/\ last = [kind |-> "stop", result |-> "raised"]
     /\ DOMAIN sessions = {})
    => /\ DOMAIN calculate_power_allocation(sessions, get_status(bess)) = {}
       /\ bess.mode = "idle"
       /\ bess.power = 0
       /\ bessCmd.command = "idle"

\* C28: the battery's power has the sign of its mode: positive when
\* boosting or discharging, negative when charging, zero when idle.
C28_PowerReflectsMode ==
    /\ bess.mode \in {"boost", "discharging"} => bess.power > 0
    /\ bess.mode = "charging" => bess.power < 0
    /\ bess.mode = "idle" => bess.power = 0

\* C29: a stop of an active session, over REST or from the device, leaves
\* the persisted record of the session completed, with the reported energy
\* as its total energy.
C29_StopIsPersisted ==
    [][\A id \in DOMAIN sessions, e \in StopEnergies :
          stop_session(id, e)
          => /\ id \in DOMAIN db'
             /\ db'[id].status = "completed"
             /\ db'[id].total_energy = e]_vars

\* C30: after the allocator has run, the allocations add up to no more than
\* the total available of that run, without any rounding tolerance.
C30_RoundingCorrection ==
    (Reallocated /\ DOMAIN sessions # {}) => SumAllocated <= lastAvailable

\* the BESS policy has just run: it runs at the end of a successful start,
\* and of every update of SessionService
PolicyRan ==
    \/ last.kind = "start" /\ last.result = "ok"
    \/ last.kind = "update" /\ svc = "rest"

\* total_demand - grid_available of registry S, times Scale(S)
Shortage(S) == total_demand(S) - (gridCapacity - staticLoad) * Scale(S)

\* C25: when the BESS policy runs with the total demand above the grid share
\* and the state of charge above minSOC, it issues a discharge command whose
\* power is min(total demand - grid share, available discharge).
C25_BoostPolicy ==
    [][(/\ PolicyRan'
        /\ Shortage(sessions') > 0
        /\ bess.soc > minSOC * SocScale)
       => /\ bessCmd'.command = "discharge"
          /\ bessCmd'.den = Scale(sessions') * EnergyGrain
          /\ bessCmd'.num = Min(Shortage(sessions') * EnergyGrain,
                                available_discharge_grains(bess) * Scale(sessions'))]_vars

\* the sessions' consumed power plus the static load
CurrentLoad(S) == SumOver([x \in DOMAIN S |-> S[x].consumedPower], DOMAIN S) + staticLoad

\* C26: when the BESS policy runs with no boost called for, the current load
\* (consumed power plus static load) below 70% of the grid share and the
\* state of charge below maxSOC, it issues a charge command of
\* min(grid share - current load, available charge) if that is at least
\* 5 kW, and no charge command otherwise.
C26_ChargeOpportunity ==
    [][(/\ PolicyRan'
        /\ Shortage(sessions') <= 0
        /\ 10 * CurrentLoad(sessions') < 7 * (gridCapacity - staticLoad)
        /\ bess.soc < maxSOC * SocScale)
       => LET charge == Min((gridCapacity - staticLoad) - CurrentLoad(sessions'),
                            calculate_available_charge(bess))
          IN IF charge >= MIN_CHARGE_POWER
             THEN /\ bessCmd'.command = "charge"
                  /\ bessCmd'.num = charge * bessCmd'.den
             ELSE bessCmd'.command # "charge"]_vars

\* C21: a session update whose timestamp is strictly older than that of
\* the latest update processed for the session changes nothing in the
\* registry: not the session's consumedPower, vehicleMaxPower and
\* totalEnergy, and no session's allocation.
C21_StaleUpdateIsNoOp ==
    [][\A ts \in Timestamps, id \in SessionIds, u \in FaultUpdateReports :
          (/\ id \in DOMAIN updatedAt
           /\ ts < updatedAt[id]
           /\ session_update_message(ts, id, u[1], u[2], u[3]))
          => sessions' = sessions]_vars

\* C22: when a persistence write fails while a start, a stop or an update
\* is handled, the registry still makes the transition: the session is
\* inserted, removed, or updated and reallocated.
C22_MemoryKeptOnWriteFailure ==
    [][/\ \A id \in SessionIds, p \in FaultPlaces, v \in VehiclePowers,
             k \in DOMAIN StartWrites :
             create_session_write_fails(id, p[1], p[2], v, k)
             => id \in DOMAIN sessions'
       /\ \A id \in DOMAIN sessions, e \in StopEnergies :
             stop_session(id, e) => id \notin DOMAIN sessions'
       /\ \A id \in SessionIds, u \in FaultUpdateReports :
             update_power_and_energy_write_fails(id, u[1], u[2], u[3])
             => /\ sessions'[id].consumedPower = u[1]
                /\ sessions'[id].vehicleMaxPower = u[2]
                /\ sessions'[id].totalEnergy = u[3]
                /\ \A x \in DOMAIN sessions' :
                      sessions'[x].allocatedPower =
                         calculate_power_allocation(sessions', get_status(bess))[x]]_vars

\* C23: a message that does not decode changes neither the registry nor
\* the battery state nor the tables, publishes no limit and no BESS
\* command, and leaves the adapter listening, so that the messages after
\* it are handled.
C23_MalformedDiscarded ==
    [][discarded' # discarded
       => /\ UNCHANGED <<sessions, bess, db, connStatus, published, lastAvailable>>
          /\ pubNow' = {}
          /\ bessCmd' = NoCommand
          /\ listening']_vars

\* a start is handled, the session inserted and its limit published, after
\* a malformed message was discarded while the registry held a session
C23_Witness ==
    /\ discarded > 0
    /\ listening
    /\ last.kind = "start" /\ last.result = "ok"
    /\ Cardinality(DOMAIN sessions) = 2
    /\ pubNow # {}

\* two registry sessions with the same demand
EqualDemand(S, x, y) == session_demand(S, S[x]) = session_demand(S, S[y])

\* C31: in every allocation the allocator produces, two sessions with equal
\* demand receive equal allocatedPower, whatever their identifiers and the
\* order of their starts: both in the vector the allocator returns for the
\* registry and the current battery snapshot, and in the registry an
\* allocator run has left.
C31_Fairness ==
    \A x \in DOMAIN sessions, y \in DOMAIN sessions :
        EqualDemand(sessions, x, y)
        => /\ calculate_power_allocation(sessions, get_status(bess))[x]
                = calculate_power_allocation(sessions, get_status(bess))[y]
           /\ calculate_power_allocation(sessions, None)[x]
                = calculate_power_allocation(sessions, None)[y]
           /\ Reallocated => sessions[x].allocatedPower = sessions[y].allocatedPower

\* the allocator has cut two sessions of equal demand, different vehicles
\* and different start order to the same allocation
C31_Witness ==
    /\ Reallocated
    /\ GridConstrained(sessions)
    /\ \E x \in DOMAIN sessions, y \in DOMAIN sessions :
          /\ x < y
          /\ EqualDemand(sessions, x, y)
          /\ sessions[x].vehicleMaxPower # sessions[y].vehicleMaxPower
          /\ sessions[x].allocatedPower = sessions[y].allocatedPower
          /\ sessions[x].allocatedPower * Scale(sessions) < session_demand(sessions, sessions[x])

\* C32: right after every start, stop and update that ran the allocator,
\* every session's allocatedPower is the allocator's output for the
\* registry the event left, computed with the snapshot of the battery taken
\* for the event: grid share plus the battery's available discharge.
C32_CoherentPostState ==
    [][(nEvents' # nEvents /\ Reallocated')
       => \A x \in DOMAIN sessions' :
             sessions'[x].allocatedPower =
                calculate_power_allocation(sessions', get_status(bess))[x]]_vars

\* C33: after every start and update that completed without a persistence
\* error, the persisted allocated_power and offered_power of every session
\* of the registry equal the registry's values, also for the sessions whose
\* allocation the event changed as a side effect.
C33_PersistedMatchesRegistry ==
    (Reallocated /\ last.result = "ok")
    => \A x \in DOMAIN sessions :
          /\ x \in DOMAIN db
          /\ db[x].allocated_power = sessions[x].allocatedPower
          /\ db[x].offered_power = sessions[x].offeredPower

\* C34: when the publish of a started session's power limit has failed,
\* the limit is not lost: later, the session still being in the registry,
\* its connector has been sent the session's allocation of that time.
C34_FailedPublishRetried ==
    \A x \in SessionIds :
        (/\ last.kind = "start" /\ last.result = "ok"
         /\ pubNow = {}
         /\ x \in DOMAIN sessions
         /\ \A y \in DOMAIN sessions : y <= x)
        ~> (x \notin DOMAIN sessions
            \/ published[PlaceOf(x)] = sessions[x].allocatedPower)

\* C35: at or below minSOC the available discharge is 0 and no discharge
\* command of positive power is issued; at or above maxSOC the available
\* charge is 0 and no charge command of positive power is issued.
C35_ReservoirBoundaries ==
    /\ [](/\ bess.soc <= minSOC * SocScale
             => get_status(bess).availableDischarge = 0
          /\ bess.soc >= maxSOC * SocScale
             => get_status(bess).availableCharge = 0)
    /\ [][/\ bess.soc <= minSOC * SocScale
             => ~(bessCmd'.command = "discharge" /\ bessCmd'.num > 0)
          /\ bess.soc >= maxSOC * SocScale
             => ~(bessCmd'.command = "charge" /\ bessCmd'.num > 0)]_vars

\* the policy has run on a shortage with the battery below minSOC and has
\* issued no command
C35_Witness ==
    /\ last.kind = "start" /\ last.result = "ok"
    /\ bess.soc < minSOC * SocScale
    /\ Shortage(sessions) > 0
    /\ bessCmd = NoCommand

\* C36: whenever the BESS policy runs and neither a positive boost power
\* nor a positive charge power results, the battery goes to mode idle with
\* power 0 and an idle command is issued: no BOOST or CHARGING mode of an
\* earlier decision is left standing.
C36_DegradeToIdle ==
    [][(/\ nEvents' # nEvents
        /\ PolicyRan'
        /\ ~(bessCmd'.command \in {"discharge", "charge"} /\ bessCmd'.num > 0))
       => /\ bess'.mode = "idle"
          /\ bess'.power = 0
          /\ bessCmd'.command = "idle"]_vars

\* the power of BESS command c, signed as the controller signs power
\* (discharge positive, charge negative), is more than 0.1 kW away from
\* power p
CommandDiffers(c, p) ==
    LET signed == IF c.command = "charge" THEN -c.num
                  ELSE IF c.command = "discharge" THEN c.num ELSE 0
    IN Abs(signed - p * c.den) > c.den

\* C37: every update of a session of the registry runs the BESS policy on
\* the registry the update leaves, and a BESS command is published exactly
\* when the power the policy decides differs from the previous BESS power
\* by more than 0.1 kW.
C37_PolicyOnUpdate ==
    [][(nEvents' # nEvents /\ last'.kind = "update" /\ last'.result = "ok")
       => (bessCmd' # NoCommand
           <=> CommandDiffers(bess_command(sessions', bess), bess.power))]_vars

\* C38: after every event a connector's status is occupied exactly when
\* the registry holds a session on that charger and connector.
C38_ConnectorStatusTracksSessions ==
    \A p \in Places :
        connStatus[p] = "occupied" <=> \E x \in DOMAIN sessions : PlaceOf(x) = p

\* C39: whenever the battery has just been commanded to charge at power c,
\* the allocations of the registry's sessions, the static load and c
\* together stay within gridCapacity.
C39_ChargeWithinGrid ==
    (bessCmd.command = "charge" /\ bessCmd.num > 0)
    => SumAllocated + staticLoad + bessCmd.num <= gridCapacity

\* C40: however many SessionServiceMQTT instances are constructed, one per
\* inbound message and per HTTP request, there is one registry and one
\* battery controller and every instance refers to them; every handler
\* list holds one handler, and every session message or request leads to
\* exactly one invocation of its operation.
C40_SingleRegistrySingleDispatch ==
    /\ wiring.managers = 1 /\ wiring.controllers = 1
    /\ wiring.bound = {<<wiring.manager, wiring.controller>>}
    /\ \A k \in Kinds : wiring.handlers[k] = 1
    /\ wiring.pending \in SessionKinds => wiring.invoked = 1

\* an update handled by a later instance has found a session that
\* another instance started
C40_Witness ==
    /\ wiring.instances >= 3
    /\ wiring.pending = "update"
    /\ last.kind = "update" /\ last.result = "ok"
    /\ DOMAIN sessions # {}

====
